---- MODULE Spec2Model ----
(***************************************************************************)
(* Model of SmallSat_CustomizedCrawler.py: the listing-table walk          *)
(* (extract_paper_links_with_dates), the downloader (download_pdf) and the *)
(* run driver (main) with its spreadsheet store and PDF files.             *)
(***************************************************************************)
EXTENDS Integers, Sequences, FiniteSets, TLC

VARIABLES
    \* ---- extract_paper_links_with_dates (one walk of the schedule table)
    rows,            \* schedule_table.find_all('tr'), in document order
    idx,             \* number of rows already walked
    current_date,    \* the date context (None before any parsed day row)
    paper_date_map,  \* the dict, as its items in insertion order
    skipped_links,   \* links met while no date was set
    \* ---- download_pdf (one call)
    dl_attempts,     \* outcome of each attempt made so far
    dl_file,         \* state of the destination file
    dl_result,       \* "running", "true", "false" or "raised"
    \* ---- main (the run driver) and its surroundings
    site,            \* the listing document on the web site
    store,           \* papers_{year}.xlsx
    files,           \* PDF paths that exist in the output directory
    pc,              \* position of main
    params,          \* test_flag, download_flag, log_level of the current run
    papers_info,     \* the in-memory collection
    processed_links, \* the processed set
    count,           \* papers counted towards the test limiter
    pos,             \* items of paper_date_map already iterated
    runs,            \* runs of main started so far
    start_store,     \* the store as it was when the current run started
    log,             \* collaborator calls of the current run, in order
    \* ---- the extraction from one paper page (lines 171-188 of main)
    soup_temp,       \* the fetched paper page
    page_pc,         \* "fetched", "titled" or "extracted"
    article_title,   \* get_article_title(soup_temp)
    abstract         \* the abstract main extracts

listingVars == <<rows, idx, current_date, paper_date_map, skipped_links>>
dlVars == <<dl_attempts, dl_file, dl_result>>
pageVars == <<soup_temp, page_pc, article_title, abstract>>
mainVars == <<site, store, files, pc, params, papers_info, processed_links,
              count, pos, runs, start_store, log>>
vars == <<rows, idx, current_date, paper_date_map, skipped_links,
          dl_attempts, dl_file, dl_result,
          site, store, files, pc, params, papers_info, processed_links,
          count, pos, runs, start_store, log,
          soup_temp, page_pc, article_title, abstract>>

\* ------------------------------------------------------------------ bounds
MaxRows == 4        \* rows of a schedule table in the listing walk

\* --------------------------------------------------------------- constants
Year == 2025        \* main(year=2025)

\* ------------------------------------------------------------ small helpers
Range(s) == {s[i] : i \in 1..Len(s)}

SeqsUpTo(S, n) == UNION {[1..k -> S] : k \in 0..n}

RECURSIVE DigitsOf(_)
\* str(n) for n >= 0, as its decimal digits
DigitsOf(n) == IF n < 10 THEN <<n>> ELSE Append(DigitsOf(n \div 10), n % 10)

RECURSIVE ToInt(_)
\* int(ds) for a non-empty run of decimal digits
ToInt(ds) ==
    IF ds = <<>> THEN 0
    ELSE 10 * ToInt(SubSeq(ds, 1, Len(ds) - 1)) + ds[Len(ds)]

\* f"{n:02d}": at least two digits, zero padded
Fmt02(n) == IF n < 10 THEN <<0, n>> ELSE DigitsOf(n)

\* ------------------------------------------------- the listing-table walk
None == <<>>        \* Python's None (and any falsy string)

\* datetime.strptime(month, '%B').month; 0 stands for the ValueError
MonthNum(w) ==
    CASE w = "January" -> 1 [] w = "February" -> 2 [] w = "March" -> 3
      [] w = "April" -> 4 [] w = "May" -> 5 [] w = "June" -> 6
      [] w = "July" -> 7 [] w = "August" -> 8 [] w = "September" -> 9
      [] w = "October" -> 10 [] w = "November" -> 11 [] w = "December" -> 12
      [] OTHER -> 0

\* The text of a day row: the number of ', '-separated parts, and in the
\* second part the word and the digit run the regex (\w+)\s+(\d+) finds
\* (both empty when it finds none).
DayText(n, w, ds) == [nparts |-> n, month |-> w, day |-> ds]

\* The date a day row's text sets, or None when the text leaves the date
\* context alone (wrong number of parts, no regex match, strptime raising).
ParseDayText(t, year) ==
    IF t.nparts = 2
    THEN IF t.month # "" /\ t.day # <<>>
         THEN IF MonthNum(t.month) # 0
              THEN DigitsOf(year) \o Fmt02(MonthNum(t.month)) \o Fmt02(ToInt(t.day))
              ELSE None
         ELSE None
    ELSE None

\* An anchor's href: the year and number of its /smallsat/{y}/all{y}/{n} path
Href(y, n) == [year |-> y, num |-> n]

NoLink == Href(0, 0)    \* no anchor found (None)
NoText == [nparts |-> 0, month |-> "", day |-> <<>>]

\* row.find('a', href=re.compile(rf'/smallsat/{year}/all{year}/\d+')):
\* the href of the first anchor of the row that matches, or NoLink
RECURSIVE FindLink(_, _)
FindLink(anchors, year) ==
    IF anchors = <<>> THEN NoLink
    ELSE IF Head(anchors).year = year THEN Head(anchors)
    ELSE FindLink(Tail(anchors), year)

\* A table row: cls holds "day" / "vevent" when some class of the row
\* contains that substring
Row(c, t, a) == [cls |-> c, text |-> t, anchors |-> a]

IsDayRow(r) == "day" \in r.cls
IsPaperRow(r) == ~IsDayRow(r) /\ "vevent" \in r.cls

\* index of link k in the dict items m, or 0
KeyIndex(m, k) ==
    IF \E i \in 1..Len(m) : m[i].link = k
    THEN CHOOSE i \in 1..Len(m) : m[i].link = k
    ELSE 0

\* paper_date_map[k] = d: a new key goes last, an old key keeps its place
DictSet(m, k, d) ==
    IF KeyIndex(m, k) = 0
    THEN Append(m, [link |-> k, date |-> d])
    ELSE [m EXCEPT ![KeyIndex(m, k)] = [link |-> k, date |-> d]]

Keys(m) == {m[i].link : i \in 1..Len(m)}

\* (mutant) the first date set is kept for the rest of the walk
DayRowDateKeepsFirst(cur, r, year) ==
    IF cur # None THEN cur
    ELSE IF ParseDayText(r.text, year) # None THEN ParseDayText(r.text, year)
    ELSE cur

\* (mutant) a day row that fails to parse clears the date context
DayRowDateResets(cur, r, year) == ParseDayText(r.text, year)

\* The date context after a day row
DayRowDate(cur, r, year) ==
    IF ParseDayText(r.text, year) # None THEN ParseDayText(r.text, year) ELSE cur

\* (mutant) the link is entered whether or not a date is set
PaperRowMapUndated(m, cur, r, year) ==
    IF FindLink(r.anchors, year) # NoLink
    THEN DictSet(m, FindLink(r.anchors, year), cur)
    ELSE m

\* The dict after a paper row
PaperRowMap(m, cur, r, year) ==
    IF FindLink(r.anchors, year) # NoLink /\ cur # None
    THEN DictSet(m, FindLink(r.anchors, year), cur)
    ELSE m

\* The skipped list after a paper row
PaperRowSkipped(sk, cur, r, year) ==
    IF FindLink(r.anchors, year) # NoLink /\ cur = None
    THEN Append(sk, FindLink(r.anchors, year))
    ELSE sk

\* One iteration of the loop over the rows: the state of the walk after row r
WalkRow(w, r, year) ==
    IF IsDayRow(r)
    THEN [w EXCEPT !.cur = DayRowDate(w.cur, r, year)]
    ELSE IF IsPaperRow(r)
    THEN [w EXCEPT !.map = PaperRowMap(w.map, w.cur, r, year),
                   !.skipped = PaperRowSkipped(w.skipped, w.cur, r, year)]
    ELSE w

WalkStart == [cur |-> None, map |-> <<>>, skipped |-> <<>>]

RECURSIVE WalkRows(_, _, _)
WalkRows(w, rs, year) ==
    IF rs = <<>> THEN w ELSE WalkRows(WalkRow(w, Head(rs), year), Tail(rs), year)

\* extract_paper_links_with_dates(soup, year); doc.table is FALSE when the
\* page holds no table of class vcalendar
ExtractPaperLinksWithDates(doc, year) ==
    IF ~doc.table THEN <<>> ELSE WalkRows(WalkStart, doc.rows, year).map

\* ---- inputs of the walk
DayTexts ==
    { DayText(2, "August", <<5>>),       \* "Tuesday, August 5"
      DayText(2, "August", <<1, 2>>),    \* "Tuesday, August 12"
      DayText(2, "Aug", <<5>>),          \* "Tuesday, Aug 5": strptime raises
      DayText(2, "", <<>>),              \* "Tuesday, August": no regex match
      DayText(1, "August", <<5>>) }      \* "August 5": one part

L1 == Href(Year, 1)
L2 == Href(Year, 2)
Other == Href(Year - 1, 1)               \* a paper path of another year

TableRows ==
    {Row({"day"}, t, <<>>) : t \in DayTexts}
    \cup {Row({"vevent"}, NoText, a) : a \in {<<L1>>, <<L2>>, <<Other, L1>>, <<Other>>}}
    \cup {Row({}, NoText, <<L1>>)}
    \cup {Row({"day", "vevent"}, DayText(2, "August", <<1, 2>>), <<L2>>)}

\* ---- the walk as a state machine
ListingInit ==
    /\ rows \in SeqsUpTo(TableRows, MaxRows)
    /\ idx = 0
    /\ current_date = None
    /\ paper_date_map = <<>>
    /\ skipped_links = <<>>

Walk == [cur |-> current_date, map |-> paper_date_map, skipped |-> skipped_links]

WalkTo(w) ==
    /\ current_date' = w.cur
    /\ paper_date_map' = w.map
    /\ skipped_links' = w.skipped
    /\ idx' = idx + 1
    /\ UNCHANGED rows

DayRowStep ==
    /\ idx < Len(rows)
    /\ IsDayRow(rows[idx + 1])
    /\ WalkTo(WalkRow(Walk, rows[idx + 1], Year))

PaperRowStep ==
    /\ idx < Len(rows)
    /\ IsPaperRow(rows[idx + 1])
    /\ WalkTo(WalkRow(Walk, rows[idx + 1], Year))

OtherRowStep ==
    /\ idx < Len(rows)
    /\ ~IsDayRow(rows[idx + 1]) /\ ~IsPaperRow(rows[idx + 1])
    /\ WalkTo(WalkRow(Walk, rows[idx + 1], Year))

\* ------------------------------------------------------------ download_pdf
MaxRetries == 5     \* download_pdf(url, output_path, max_retries=5)

\* What one attempt meets: "ok"; "fail_request" (requests.get or
\* raise_for_status raises, before the file is opened); "fail_write" (open
\* has truncated the file and a later write or read of a chunk raises)
Outcomes == {"ok", "fail_request", "fail_write"}

\* (mutant) only the failures of the request are caught
CaughtRequestOnly(out) == out = "fail_request"

\* except Exception as e: every failure of the try block is caught
Caught(out) == out \in {"fail_request", "fail_write"}

\* The destination file after an attempt
FileAfter(file, out) ==
    CASE out = "ok" -> "full"
      [] out = "fail_write" -> "partial"
      [] OTHER -> file

\* One pass of the for loop, started only while no attempt has returned
DownloadAttempt(d, out) ==
    [attempts |-> Append(d.attempts, out),
     file |-> FileAfter(d.file, out),
     result |-> IF out = "ok" THEN "true"
                ELSE IF Caught(out) THEN "running" ELSE "raised"]

\* The loop is exhausted: return False
DownloadGiveUp(d) == [d EXCEPT !.result = "false"]

RECURSIVE DownloadLoop(_, _)
\* download_pdf run against the outcomes outs[1], outs[2], ... of its attempts
DownloadLoop(d, outs) ==
    IF d.result # "running" THEN d
    ELSE IF Len(d.attempts) >= MaxRetries THEN DownloadGiveUp(d)
    ELSE DownloadLoop(DownloadAttempt(d, outs[Len(d.attempts) + 1]), outs)

DownloadPdf(file, outs) ==
    DownloadLoop([attempts |-> <<>>, file |-> file, result |-> "running"], outs)

\* ---- download_pdf as a state machine
Dl == [attempts |-> dl_attempts, file |-> dl_file, result |-> dl_result]

DlTo(d) ==
    /\ dl_attempts' = d.attempts
    /\ dl_file' = d.file
    /\ dl_result' = d.result

DownloadInit ==
    /\ dl_attempts = <<>>
    /\ dl_file \in {"absent", "old"}
    /\ dl_result = "running"

AttemptSucceeds ==
    /\ dl_result = "running"
    /\ Len(dl_attempts) < MaxRetries
    /\ DlTo(DownloadAttempt(Dl, "ok"))

AttemptFails ==
    /\ dl_result = "running"
    /\ Len(dl_attempts) < MaxRetries
    /\ \E out \in Outcomes \ {"ok"} : DlTo(DownloadAttempt(Dl, out))

ReturnFalse ==
    /\ dl_result = "running"
    /\ Len(dl_attempts) >= MaxRetries
    /\ DlTo(DownloadGiveUp(Dl))

\* ------------------------------------------------------- paper page extraction
\* Text is a tuple of tokens; ":" and " " are tokens of their own.
RECURSIVE Split(_, _)
\* s.split(c): the pieces of s between the occurrences of c, all of them
Split(s, c) ==
    IF \A i \in 1..Len(s) : s[i] # c THEN <<s>>
    ELSE LET k == CHOOSE i \in 1..Len(s) :
                      s[i] = c /\ \A j \in 1..(i - 1) : s[j] # c
         IN <<SubSeq(s, 1, k - 1)>> \o Split(SubSeq(s, k + 1, Len(s)), c)

RECURSIVE Strip(_)
\* s.strip()
Strip(s) ==
    IF s = <<>> THEN s
    ELSE IF Head(s) = " " THEN Strip(Tail(s))
    ELSE IF s[Len(s)] = " " THEN Strip(SubSeq(s, 1, Len(s) - 1))
    ELSE s

UnknownTitle == <<"UnknownTitle">>

\* get_article_title(soup); page.title is <<>> when the page has no
\* <title> or its string is empty
GetArticleTitle(page) ==
    IF page.title # <<>>
    THEN IF Len(Split(page.title, ":")) > 1
         THEN Strip(Split(page.title, ":")[2])
         ELSE Strip(Split(page.title, ":")[1])
    ELSE UnknownTitle

\* (mutant) the meta description is tried before the container
GetAbstractMetaFirst(page) ==
    IF page.meta = "content" THEN page.content
    ELSE IF page.div = "p" THEN Strip(page.p_text)
    ELSE IF page.div = "text" THEN Strip(page.div_text)
    ELSE <<>>

\* The abstract main extracts: page.div is "none" (no div#abstract), "p"
\* (the div has a <p>) or "text" (it has none); page.meta is "none" (no
\* meta description), or "content" / "empty" for its content attribute
GetAbstract(page) ==
    IF page.div # "none"
    THEN IF page.div = "p" THEN Strip(page.p_text) ELSE Strip(page.div_text)
    ELSE IF page.meta = "content" THEN page.content
    ELSE <<>>

RECURSIVE FindPdfLink(_)
\* find_pdf_link(soup): the href of the first anchor matching the
\* viewcontent.cgi pattern, or None
FindPdfLink(anchors) ==
    IF anchors = <<>> THEN None
    ELSE IF Head(anchors).pdf THEN Head(anchors).url
    ELSE FindPdfLink(Tail(anchors))

\* ---- the extraction from a fetched page as a state machine
MaxTitleLen == 4    \* pieces of the <title> string

\* The pieces a <title> string is made of
TitlePieces == {"SmallSat 2025", "Paper", ":", " "}

\* Paper pages: any title; with a div#abstract that has a <p>, one that has
\* none, or no div; with a meta description that has content, one whose
\* content is empty, or none
Pages ==
    {[title |-> t, div |-> d, p_text |-> pt,
      div_text |-> <<" ", "Abstract", " ">> \o pt,
      meta |-> m, content |-> IF m = "content" THEN <<"description", " ">> ELSE <<>>,
      anchors |-> <<>>] :
        t \in SeqsUpTo(TitlePieces, MaxTitleLen),
        d \in {"none", "p", "text"},
        pt \in {<<>>, <<" ", "summary", " ">>},
        m \in {"none", "content", "empty"}}

PageInit ==
    /\ soup_temp \in Pages
    /\ page_pc = "fetched"
    /\ article_title = <<>>
    /\ abstract = <<>>

\* article_title = get_article_title(soup_temp)
ExtractTitle ==
    /\ page_pc = "fetched"
    /\ article_title' = GetArticleTitle(soup_temp)
    /\ page_pc' = "titled"
    /\ UNCHANGED <<soup_temp, abstract>>

\* the abstract block of main
ExtractAbstract ==
    /\ page_pc = "titled"
    /\ abstract' = GetAbstract(soup_temp)
    /\ page_pc' = "extracted"
    /\ UNCHANGED <<soup_temp, article_title>>

\* ---------------------------------------------------------------- the store
\* papers_{year}.xlsx: whether the file exists, whether it has a Link
\* column, and its rows as cells
Absent == [exists |-> FALSE, link_col |-> FALSE, rows |-> <<>>]

EmptyCell == <<"(empty cell)">>
NaN == <<"nan">>

\* (mutant) NaN is written as the text "nan"
ToCellNanText(v) == IF v = <<>> THEN EmptyCell ELSE v

\* A text value as a cell: an empty string and NaN leave the cell empty
ToCell(v) == IF v = <<>> \/ v = NaN THEN EmptyCell ELSE v

\* A cell as pandas reads it: an empty cell is NaN
FromCell(c) == IF c = EmptyCell THEN NaN ELSE c

\* pd.DataFrame(papers_info).to_excel(excel_path, index=False)
WriteExcel(recs) ==
    [exists |-> TRUE, link_col |-> TRUE,
     rows |-> [i \in 1..Len(recs) |->
                  [recs[i] EXCEPT !.title = ToCell(@), !.abstract = ToCell(@)]]]

\* pd.read_excel(excel_path).to_dict(orient='records')
ReadExcel(st) ==
    [i \in 1..Len(st.rows) |->
        [st.rows[i] EXCEPT !.title = FromCell(@), !.abstract = FromCell(@)]]

\* (mutant) the processed set is not filled from the store
LinkSetEmpty(recs) == {}

\* set(df_existing['Link'].astype(str))
LinkSet(recs) == {recs[i].link : i \in 1..Len(recs)}

\* ------------------------------------------------------------------- main
MaxPapers == 2      \* paper rows of the listing document
MaxRuns == 2        \* runs of main
TestLimit == 3      \* if test_flag and count >= 3

Paper(n) == Href(Year, n)

\* The paper page the site serves for paper n, with or without the PDF anchor
PageOf(n, pdf) ==
    [title |-> IF n = 2 THEN <<"Paper B", " ">>
               ELSE <<"SmallSat 2025", ":", " ", "Paper A", ":", "part">>,
     div |-> IF n = 1 THEN "p" ELSE "none",
     p_text |-> <<" ", "abstract 1">>,
     div_text |-> <<"Abstract", "abstract 1">>,
     meta |-> IF n = 2 THEN "content" ELSE "none",
     content |-> <<"description 2">>,
     anchors |-> IF pdf THEN <<[pdf |-> FALSE, url |-> <<"home">>],
                               [pdf |-> TRUE, url |-> <<"viewcontent", n>>]>>
                 ELSE <<[pdf |-> FALSE, url |-> <<"home">>]>>]

Day1 == Row({"day"}, DayText(2, "August", <<5>>), <<>>)
Day2 == Row({"day"}, DayText(2, "August", <<1, 2>>), <<>>)
PaperRow(n) == Row({"vevent"}, NoText, <<Paper(n)>>)

\* Listing documents: no schedule table; a day row and the first k papers;
\* three papers under two days, the last of them also met before any day
SiteDocs ==
    {[table |-> FALSE, rows |-> <<>>]}
    \cup {[table |-> TRUE, rows |-> <<Day1>> \o [i \in 1..k |-> PaperRow(i)]] :
             k \in 0..MaxPapers}
    \cup {[table |-> TRUE,
            rows |-> <<PaperRow(1), Day1, PaperRow(2), Day2, PaperRow(3), PaperRow(1)>>]}

MakeRecord(t, d, a, l) == [title |-> t, date |-> d, abstract |-> a, link |-> l]

Date1 == ParseDayText(DayText(2, "August", <<5>>), Year)

\* Stores a run can find: none, one without a Link column, and stores
\* whose records have pairwise distinct links
InitStores ==
    {Absent,
     [exists |-> TRUE, link_col |-> FALSE, rows |-> <<>>],
     WriteExcel(<<MakeRecord(<<"Paper B">>, Date1, <<>>, Paper(2))>>),
     WriteExcel(<<MakeRecord(<<"Paper B">>, Date1, <<"description 2">>, Paper(2)),
                  MakeRecord(<<"Paper A">>, Date1, <<"abstract 1">>, Paper(1))>>)}

NoPath == <<>>
Ev(op, link, path, ok) == [op |-> op, link |-> link, path |-> path, ok |-> ok]

\* pdf_filename = f"{paper_date}_{article_title}.pdf"
PdfPath(date, title) == <<date, title>>

\* Attempt outcomes a download meets: k failures of one kind, then
\* successes, for no failure, one success at the last attempt, and none
DownloadScenarios ==
    {[i \in 1..MaxRetries |-> IF i <= k THEN out ELSE "ok"] :
        k \in {0, MaxRetries - 1, MaxRetries}, out \in Outcomes \ {"ok"}}

MainInit ==
    /\ site \in SiteDocs
    /\ store \in InitStores
    /\ files = {}
    /\ pc = "Init"
    /\ params = [test_flag |-> FALSE, download_flag |-> TRUE, debug |-> FALSE]
    /\ papers_info = <<>>
    /\ processed_links = {}
    /\ count = 0
    /\ pos = 0
    /\ runs = 0
    /\ start_store = store
    /\ log = <<>>
    /\ paper_date_map = <<>>

\* main is called: setup_logging, then fetch_soup(base_url)
StartRun(listing_ok) ==
    /\ pc \in {"Init", "Done", "Raised"}
    /\ runs < MaxRuns
    /\ runs' = runs + 1
    /\ params' \in [test_flag : BOOLEAN, download_flag : BOOLEAN, debug : BOOLEAN]
    /\ papers_info' = <<>>
    /\ processed_links' = {}
    /\ count' = 0
    /\ pos' = 0
    /\ paper_date_map' = <<>>
    /\ start_store' = store
    /\ log' = <<Ev("fetch_listing", NoLink, NoPath, listing_ok)>>
    /\ UNCHANGED <<site, store, files>>

\* if not soup: return
FetchListingFails ==
    /\ StartRun(FALSE)
    /\ pc' = "Done"

FetchListingOk ==
    /\ StartRun(TRUE)
    /\ pc' = "ListingFetched"

\* os.makedirs(output_dir, exist_ok=True) raises: nothing catches it
MakeDirsRaises ==
    /\ pc = "ListingFetched"
    /\ log' = Append(log, Ev("makedirs", NoLink, NoPath, FALSE))
    /\ pc' = "Raised"
    /\ UNCHANGED <<site, store, files, params, papers_info, processed_links,
                   count, pos, runs, start_store, paper_date_map>>

\* log_level is DEBUG and the write of soup_debug.html raises: nothing
\* catches it
DebugDumpRaises ==
    /\ pc = "ListingFetched"
    /\ params.debug
    /\ log' = Append(log, Ev("debug_write", NoLink, NoPath, FALSE))
    /\ pc' = "Raised"
    /\ UNCHANGED <<site, store, files, params, papers_info, processed_links,
                   count, pos, runs, start_store, paper_date_map>>

\* (mutant) an empty mapping does not end the run
HasPaperLinksAlways == TRUE

\* the mapping of the listing is not empty
HasPaperLinks == ExtractPaperLinksWithDates(site, Year) # <<>>

\* if not paper_date_map: return
NoPaperLinks ==
    /\ pc = "ListingFetched"
    /\ ~HasPaperLinks
    /\ pc' = "Done"
    /\ UNCHANGED <<site, store, files, params, papers_info, processed_links,
                   count, pos, runs, start_store, log, paper_date_map>>

\* The listing has entries: the state main enters its loop with
EnterLoop(infos, links, events) ==
    /\ pc = "ListingFetched"
    /\ HasPaperLinks
    /\ paper_date_map' = ExtractPaperLinksWithDates(site, Year)
    /\ papers_info' = infos
    /\ processed_links' = links
    /\ log' = log \o events
    /\ pc' = "Iterating"
    /\ UNCHANGED <<site, store, files, params, count, pos, runs, start_store>>

ReadEvent(ok) == <<Ev("read_store", NoLink, NoPath, ok)>>

\* os.path.exists(excel_path) is false
StoreAbsent ==
    /\ ~store.exists
    /\ EnterLoop(<<>>, {}, <<>>)

\* the store is read and has a Link column
StoreLoaded ==
    /\ store.exists /\ store.link_col
    /\ EnterLoop(ReadExcel(store), LinkSet(ReadExcel(store)), ReadEvent(TRUE))

\* the store is read and has no Link column
StoreWithoutLinks ==
    /\ store.exists /\ ~store.link_col
    /\ EnterLoop(<<>>, {}, ReadEvent(TRUE))

\* (mutant) a store that cannot be read still fills the collection and
\* the processed set
StoreUnreadableKeepsRows ==
    /\ store.exists
    /\ EnterLoop(ReadExcel(store), LinkSet(ReadExcel(store)), ReadEvent(FALSE))

\* pd.read_excel raises: logged, nothing loaded
StoreUnreadable ==
    /\ store.exists
    /\ EnterLoop(<<>>, {}, ReadEvent(FALSE))

\* ---- the loop over paper_date_map.items()
InLoop == pc = "Iterating" /\ pos < Len(paper_date_map)

\* (mutant) the items are taken from the end of the dict
CurFromEnd == paper_date_map[Len(paper_date_map) - pos]

\* rel_link, paper_date of the iteration
Cur == paper_date_map[pos + 1]

FetchEvent(ok) == <<Ev("fetch", Cur.link, NoPath, ok)>>

FindPdfEvent(found) == <<Ev("find_pdf", Cur.link, NoPath, found)>>

\* (mutant) processed links are not skipped
UnprocessedAlways == TRUE

\* rel_link in processed_links is false
Unprocessed == Cur.link \notin processed_links

\* (mutant) the PDF is taken to be missing from the disk
OnDiskNever(path) == FALSE

\* os.path.exists(pdf_path)
OnDisk(path) == path \in files

\* The record main builds from a fetched page
RecordOf(page) ==
    MakeRecord(GetArticleTitle(page), Cur.date, GetAbstract(page), Cur.link)

\* papers_info.append({...}); processed_links.add(rel_link)
Appended(page) == Append(papers_info, RecordOf(page))

\* if rel_link in processed_links: continue
SkipProcessed ==
    /\ InLoop
    /\ ~Unprocessed
    /\ pos' = pos + 1
    /\ UNCHANGED <<site, store, files, pc, params, papers_info, processed_links,
                   count, runs, start_store, log, paper_date_map>>

\* (mutant) a page that cannot be fetched ends the loop
PageFetchFailsEndsLoop ==
    /\ InLoop
    /\ Unprocessed
    /\ log' = log \o FetchEvent(FALSE)
    /\ pc' = "Done"
    /\ UNCHANGED <<site, store, files, pos, params, papers_info, processed_links,
                   count, runs, start_store, paper_date_map>>

\* soup_temp = fetch_soup(full_link); if not soup_temp: continue
PageFetchFails ==
    /\ InLoop
    /\ Unprocessed
    /\ log' = log \o FetchEvent(FALSE)
    /\ pos' = pos + 1
    /\ UNCHANGED <<site, store, files, pc, params, papers_info, processed_links,
                   count, runs, start_store, paper_date_map>>

\* the page is fetched and recorded; find_pdf_link returns None: continue
PdfLinkMissing ==
    /\ InLoop
    /\ Unprocessed
    /\ LET page == PageOf(Cur.link.num, FALSE) IN
        /\ FindPdfLink(page.anchors) = None
        /\ papers_info' = Appended(page)
    /\ processed_links' = processed_links \cup {Cur.link}
    /\ log' = log \o FetchEvent(TRUE) \o FindPdfEvent(FALSE)
    /\ pos' = pos + 1
    /\ UNCHANGED <<site, store, files, pc, params, count, runs, start_store,
                   paper_date_map>>

\* log_level is DEBUG: the page is fetched and recorded, and the write of
\* soup_debug_{article_title}.html raises: nothing catches it
PageDebugDumpRaises ==
    /\ InLoop
    /\ Unprocessed
    /\ params.debug
    /\ papers_info' = Appended(PageOf(Cur.link.num, TRUE))
    /\ processed_links' = processed_links \cup {Cur.link}
    /\ log' = log \o FetchEvent(TRUE)
                  \o <<Ev("debug_write", Cur.link, NoPath, FALSE)>>
    /\ pc' = "Raised"
    /\ UNCHANGED <<site, store, files, params, count, pos, runs, start_store,
                   paper_date_map>>

\* The store after df.to_excel of the collection, which may raise (logged)
StoreAfterWrite(recs, ok) == IF ok THEN WriteExcel(recs) ELSE store

\* The rest of an iteration whose page has a PDF link: the page is recorded,
\* the files and the download events are those of the download branch
\* taken, count += 1, the collection is written, the test limiter is read
RecordPaper(page, files_after, dl_events) ==
    /\ InLoop
    /\ Unprocessed
    /\ FindPdfLink(page.anchors) # None
    /\ papers_info' = Appended(page)
    /\ processed_links' = processed_links \cup {Cur.link}
    /\ files' = files_after
    /\ count' = count + 1
    /\ \E wok \in BOOLEAN :
        /\ store' = StoreAfterWrite(Appended(page), wok)
        /\ log' = log \o FetchEvent(TRUE) \o FindPdfEvent(TRUE) \o dl_events
                      \o <<Ev("write_store", Cur.link, NoPath, wok)>>
    /\ IF params.test_flag /\ count + 1 >= TestLimit
       THEN pc' = "Done" /\ pos' = pos
       ELSE pc' = pc /\ pos' = pos + 1
    /\ UNCHANGED <<site, params, runs, start_store, paper_date_map>>

PathOf(page) == PdfPath(Cur.date, GetArticleTitle(page))

\* download_flag and the PDF is not on disk: download_pdf(pdf_url, pdf_path)
RecordAndDownload ==
    /\ InLoop
    /\ params.download_flag
    /\ LET page == PageOf(Cur.link.num, TRUE) IN
        /\ ~OnDisk(PathOf(page))
        /\ \E outs \in DownloadScenarios :
            LET d == DownloadPdf(IF PathOf(page) \in files THEN "old" ELSE "absent",
                                 outs) IN
            RecordPaper(page,
                        IF d.file = "absent" THEN files ELSE files \cup {PathOf(page)},
                        <<Ev(IF PathOf(page) \in files THEN "download_existing"
                             ELSE "download",
                             Cur.link, PathOf(page), d.result = "true")>>)

\* download_flag and the PDF is on disk: the download is skipped
RecordPdfExists ==
    /\ InLoop
    /\ params.download_flag
    /\ LET page == PageOf(Cur.link.num, TRUE) IN
        /\ OnDisk(PathOf(page))
        /\ RecordPaper(page, files, <<>>)

\* (mutant) without downloads the paper is not counted and not written
RecordNoDownloadSkipsWrite ==
    /\ InLoop
    /\ ~params.download_flag
    /\ Unprocessed
    /\ papers_info' = Appended(PageOf(Cur.link.num, TRUE))
    /\ processed_links' = processed_links \cup {Cur.link}
    /\ log' = log \o FetchEvent(TRUE) \o FindPdfEvent(TRUE)
    /\ pos' = pos + 1
    /\ UNCHANGED <<site, store, files, pc, params, count, runs, start_store,
                   paper_date_map>>

\* download_flag is off
RecordNoDownload ==
    /\ InLoop
    /\ ~params.download_flag
    /\ RecordPaper(PageOf(Cur.link.num, TRUE), files, <<>>)

\* the loop is exhausted: main returns
FinishRun ==
    /\ pc = "Iterating"
    /\ pos >= Len(paper_date_map)
    /\ pc' = "Done"
    /\ UNCHANGED <<site, store, files, params, papers_info, processed_links,
                   count, pos, runs, start_store, log, paper_date_map>>

\* ---------------------------------------------------------- specifications
NoPage ==
    [title |-> <<>>, div |-> "none", p_text |-> <<>>, div_text |-> <<>>,
     meta |-> "none", content |-> <<>>, anchors |-> <<>>]

PageIdle ==
    /\ soup_temp = NoPage /\ page_pc = "extracted"
    /\ article_title = <<>> /\ abstract = <<>>

ListingIdle ==
    /\ rows = <<>> /\ idx = 0 /\ current_date = None /\ skipped_links = <<>>

DownloadIdle ==
    /\ dl_attempts = <<>> /\ dl_file = "absent" /\ dl_result = "running"

MainIdle ==
    /\ site = [table |-> FALSE, rows |-> <<>>]
    /\ store = Absent /\ files = {} /\ pc = "Init"
    /\ params = [test_flag |-> FALSE, download_flag |-> TRUE, debug |-> FALSE]
    /\ papers_info = <<>> /\ processed_links = {} /\ count = 0 /\ pos = 0
    /\ runs = 0 /\ start_store = Absent /\ log = <<>>

\* main and its runs
Init == MainInit /\ ListingIdle /\ DownloadIdle /\ PageIdle

Next ==
    \/ FetchListingFails /\ UNCHANGED <<rows, idx, current_date, skipped_links, dlVars, pageVars>>
    \/ FetchListingOk /\ UNCHANGED <<rows, idx, current_date, skipped_links, dlVars, pageVars>>
    \/ NoPaperLinks /\ UNCHANGED <<rows, idx, current_date, skipped_links, dlVars, pageVars>>
    \/ StoreAbsent /\ UNCHANGED <<rows, idx, current_date, skipped_links, dlVars, pageVars>>
    \/ StoreLoaded /\ UNCHANGED <<rows, idx, current_date, skipped_links, dlVars, pageVars>>
    \/ StoreWithoutLinks /\ UNCHANGED <<rows, idx, current_date, skipped_links, dlVars, pageVars>>
    \/ StoreUnreadable /\ UNCHANGED <<rows, idx, current_date, skipped_links, dlVars, pageVars>>
    \/ SkipProcessed /\ UNCHANGED <<rows, idx, current_date, skipped_links, dlVars, pageVars>>
    \/ PageFetchFails /\ UNCHANGED <<rows, idx, current_date, skipped_links, dlVars, pageVars>>
    \/ PdfLinkMissing /\ UNCHANGED <<rows, idx, current_date, skipped_links, dlVars, pageVars>>
    \/ RecordAndDownload /\ UNCHANGED <<rows, idx, current_date, skipped_links, dlVars, pageVars>>
    \/ RecordPdfExists /\ UNCHANGED <<rows, idx, current_date, skipped_links, dlVars, pageVars>>
    \/ RecordNoDownload /\ UNCHANGED <<rows, idx, current_date, skipped_links, dlVars, pageVars>>
    \/ FinishRun /\ UNCHANGED <<rows, idx, current_date, skipped_links, dlVars, pageVars>>
    \/ MakeDirsRaises /\ UNCHANGED <<rows, idx, current_date, skipped_links, dlVars, pageVars>>
    \/ DebugDumpRaises /\ UNCHANGED <<rows, idx, current_date, skipped_links, dlVars, pageVars>>
    \/ PageDebugDumpRaises /\ UNCHANGED <<rows, idx, current_date, skipped_links, dlVars, pageVars>>

Spec == Init /\ [][Next]_vars

\* one walk of a schedule table
SpecListingInit == ListingInit /\ DownloadIdle /\ MainIdle /\ PageIdle

SpecListingNext ==
    \/ DayRowStep /\ UNCHANGED <<dlVars, mainVars, pageVars>>
    \/ PaperRowStep /\ UNCHANGED <<dlVars, mainVars, pageVars>>
    \/ OtherRowStep /\ UNCHANGED <<dlVars, mainVars, pageVars>>

SpecListing == SpecListingInit /\ [][SpecListingNext]_vars

\* one call of download_pdf
SpecDownloadInit ==
    DownloadInit /\ ListingIdle /\ paper_date_map = <<>> /\ MainIdle /\ PageIdle

SpecDownloadNext ==
    \/ AttemptSucceeds /\ UNCHANGED <<listingVars, mainVars, pageVars>>
    \/ AttemptFails /\ UNCHANGED <<listingVars, mainVars, pageVars>>
    \/ ReturnFalse /\ UNCHANGED <<listingVars, mainVars, pageVars>>

SpecDownload == SpecDownloadInit /\ [][SpecDownloadNext]_vars

\* runs of main with the test limiter over a listing one paper longer than
\* the limit
LimiterSite ==
    [table |-> TRUE,
     rows |-> <<Day1>> \o [i \in 1..(TestLimit + 1) |-> PaperRow(i)]]

SpecLimiterInit ==
    /\ site = LimiterSite /\ store = Absent /\ files = {} /\ pc = "Init"
    /\ params = [test_flag |-> FALSE, download_flag |-> TRUE, debug |-> FALSE]
    /\ papers_info = <<>> /\ processed_links = {} /\ count = 0 /\ pos = 0
    /\ runs = 0 /\ start_store = Absent /\ log = <<>> /\ paper_date_map = <<>>
    /\ ListingIdle /\ DownloadIdle /\ PageIdle

SpecLimiterNext ==
    \/ FetchListingFails /\ UNCHANGED <<rows, idx, current_date, skipped_links, dlVars, pageVars>>
    \/ FetchListingOk /\ UNCHANGED <<rows, idx, current_date, skipped_links, dlVars, pageVars>>
    \/ StoreAbsent /\ UNCHANGED <<rows, idx, current_date, skipped_links, dlVars, pageVars>>
    \/ StoreLoaded /\ UNCHANGED <<rows, idx, current_date, skipped_links, dlVars, pageVars>>
    \/ StoreUnreadable /\ UNCHANGED <<rows, idx, current_date, skipped_links, dlVars, pageVars>>
    \/ SkipProcessed /\ UNCHANGED <<rows, idx, current_date, skipped_links, dlVars, pageVars>>
    \/ PageFetchFails /\ UNCHANGED <<rows, idx, current_date, skipped_links, dlVars, pageVars>>
    \/ PdfLinkMissing /\ UNCHANGED <<rows, idx, current_date, skipped_links, dlVars, pageVars>>
    \/ RecordAndDownload /\ UNCHANGED <<rows, idx, current_date, skipped_links, dlVars, pageVars>>
    \/ RecordPdfExists /\ UNCHANGED <<rows, idx, current_date, skipped_links, dlVars, pageVars>>
    \/ RecordNoDownload /\ UNCHANGED <<rows, idx, current_date, skipped_links, dlVars, pageVars>>
    \/ FinishRun /\ UNCHANGED <<rows, idx, current_date, skipped_links, dlVars, pageVars>>
    \/ MakeDirsRaises /\ UNCHANGED <<rows, idx, current_date, skipped_links, dlVars, pageVars>>
    \/ DebugDumpRaises /\ UNCHANGED <<rows, idx, current_date, skipped_links, dlVars, pageVars>>
    \/ PageDebugDumpRaises /\ UNCHANGED <<rows, idx, current_date, skipped_links, dlVars, pageVars>>

SpecLimiter == SpecLimiterInit /\ [][SpecLimiterNext]_vars

\* one walk of a table of one day row and one paper row, over the words
\* and the digit runs the regex can hand to the date format
MaxDayDigits == 3   \* digits of the run read as the day number

Months ==
    {"January", "February", "March", "April", "May", "June", "July", "August",
     "September", "October", "November", "December"}

DigitRuns == SeqsUpTo(0..9, MaxDayDigits) \ {<<>>}

SpecDayRowInit ==
    /\ \E w \in Months \cup {"Aug"}, ds \in DigitRuns :
        rows = <<Row({"day"}, DayText(2, w, ds), <<>>),
                 Row({"vevent"}, NoText, <<L1>>)>>
    /\ idx = 0 /\ current_date = None /\ paper_date_map = <<>>
    /\ skipped_links = <<>>
    /\ DownloadIdle /\ MainIdle /\ PageIdle

SpecDayRowNext ==
    \/ DayRowStep /\ UNCHANGED <<dlVars, mainVars, pageVars>>
    \/ PaperRowStep /\ UNCHANGED <<dlVars, mainVars, pageVars>>

SpecDayRow == SpecDayRowInit /\ [][SpecDayRowNext]_vars

\* the extraction of title and abstract from one fetched page
SpecPageInit ==
    /\ PageInit /\ ListingIdle /\ paper_date_map = <<>> /\ DownloadIdle
    /\ MainIdle

SpecPageNext ==
    \/ ExtractTitle /\ UNCHANGED <<listingVars, dlVars, mainVars>>
    \/ ExtractAbstract /\ UNCHANGED <<listingVars, dlVars, mainVars>>

SpecPage == SpecPageInit /\ [][SpecPageNext]_vars

\* ------------------------------------------------ properties of the walk
\* The rows walked so far
Walked == 1..idx

\* The link of row i when it is a paper row with a matching anchor
LinkAt(i) ==
    IF IsPaperRow(rows[i]) THEN FindLink(rows[i].anchors, Year) ELSE NoLink

\* The paper rows walked so far that hold link k
PaperRowsOf(k) == {i \in Walked : LinkAt(i) = k}

\* The nearest day row before row i, or 0
NearestDay(i) ==
    IF \E j \in 1..(i - 1) : IsDayRow(rows[j])
    THEN CHOOSE j \in 1..(i - 1) :
            IsDayRow(rows[j]) /\ \A n \in (j + 1)..(i - 1) : ~IsDayRow(rows[n])
    ELSE 0

Parses(j) == IsDayRow(rows[j]) /\ ParseDayText(rows[j].text, Year) # None

\* The nearest day row before row i whose text parses, or 0
NearestParsedDay(i) ==
    IF \E j \in 1..(i - 1) : Parses(j)
    THEN CHOOSE j \in 1..(i - 1) :
            Parses(j) /\ \A n \in (j + 1)..(i - 1) : ~Parses(n)
    ELSE 0

LastPaperRowOf(k) == CHOOSE i \in PaperRowsOf(k) : \A n \in PaperRowsOf(k) : n <= i

WalkDone == idx = Len(rows)

\* C1 (as claimed): every (link, date) pair of the mapping has the parsed
\* date of the nearest day row before a paper row of that link.
C1_NearestDayRow ==
    \A n \in 1..Len(paper_date_map) :
        \E i \in PaperRowsOf(paper_date_map[n].link) :
            /\ NearestDay(i) # 0
            /\ ParseDayText(rows[NearestDay(i)].text, Year) = paper_date_map[n].date

\* C1 (amended): every (link, date) pair of the mapping has the parsed date
\* of the nearest day row whose text parses before the last paper row of
\* that link; day rows that fail to parse are passed over.
C1_NearestParsedDayRow ==
    \A n \in 1..Len(paper_date_map) :
        LET k == paper_date_map[n].link IN
        /\ PaperRowsOf(k) # {}
        /\ NearestParsedDay(LastPaperRowOf(k)) # 0
        /\ ParseDayText(rows[NearestParsedDay(LastPaperRowOf(k))].text, Year)
              = paper_date_map[n].date

\* C1 witness: the walk is over and a mapped link follows a day row that
\* failed to parse, itself after one that parsed.
C1_Witness ==
    /\ WalkDone
    /\ \E n \in 1..Len(paper_date_map) :
        LET i == LastPaperRowOf(paper_date_map[n].link) IN
        /\ NearestParsedDay(i) # 0
        /\ NearestDay(i) > NearestParsedDay(i)

\* C2 (as claimed): a link held by a paper row that no day row precedes is
\* never a key of the mapping.
C2_EarlyLinkAbsent ==
    \A i \in Walked :
        (LinkAt(i) # NoLink /\ NearestDay(i) = 0) => LinkAt(i) \notin Keys(paper_date_map)

\* C2 (amended): a link all of whose paper rows come before any day row is
\* never a key of the mapping; a paper row before any day row adds no entry.
C2_OnlyEarlyLinkAbsent ==
    \A i \in Walked :
        (/\ LinkAt(i) # NoLink
         /\ \A n \in PaperRowsOf(LinkAt(i)) : NearestDay(n) = 0)
        => LinkAt(i) \notin Keys(paper_date_map)

\* C2 witness: the walk is over, a link met before any day row was skipped
\* and is no key, while a later link was mapped.
C2_Witness ==
    /\ WalkDone
    /\ paper_date_map # <<>>
    /\ \E i \in Walked :
        /\ LinkAt(i) # NoLink /\ NearestDay(i) = 0
        /\ LinkAt(i) \in Range(skipped_links)
        /\ LinkAt(i) \notin Keys(paper_date_map)

\* ------------------------------------------------ properties of download_pdf
Failed(i) == dl_attempts[i] # "ok"

\* C7: download_pdf makes at most max_retries = 5 attempts; it returns True
\* exactly at the first attempt that succeeds (no attempt follows a
\* success) and the file is then fully written; it returns False only
\* after 5 failed attempts; it never raises.
C7_DownloadRetry ==
    /\ Len(dl_attempts) <= MaxRetries
    /\ dl_result # "raised"
    /\ \A i \in 1..(Len(dl_attempts) - 1) : Failed(i)
    /\ dl_result = "true" <=>
          (dl_attempts # <<>> /\ dl_attempts[Len(dl_attempts)] = "ok")
    /\ dl_result = "true" => dl_file = "full"
    /\ dl_result = "false" =>
          (Len(dl_attempts) = MaxRetries /\ \A i \in 1..MaxRetries : Failed(i))
    /\ dl_result = "running" => \A i \in 1..Len(dl_attempts) : Failed(i)

\* C7 witness: four failed attempts, then the fifth succeeds and True is
\* returned.
C7_Witness ==
    /\ Len(dl_attempts) = MaxRetries
    /\ \A i \in 1..(MaxRetries - 1) : Failed(i)
    /\ dl_result = "true"

\* C7 (second case reached): five failed attempts end in False.
C7_AllFailReached ==
    /\ dl_result = "false"
    /\ Len(dl_attempts) = MaxRetries

\* ------------------------------------------------------ properties of main
StoreLinks(st) == {st.rows[i].link : i \in 1..Len(st.rows)}

NoDuplicateLinks(recs) ==
    \A i, j \in 1..Len(recs) : recs[i].link = recs[j].link => i = j

Events(op) == {i \in 1..Len(log) : log[i].op = op}

\* The store was read without error in the current run
StoreRead == \E i \in Events("read_store") : log[i].ok

\* The records the current run loaded from the store
Loaded == IF StoreRead /\ start_store.link_col THEN start_store.rows ELSE <<>>

\* The links of the records the current run appended
AppendedLinks ==
    {papers_info[i].link : i \in (Len(Loaded) + 1)..Len(papers_info)}

Listed == Keys(paper_date_map)

\* The run went through its loop and was not ended by the test limiter
LoopExhausted ==
    /\ pc = "Done"
    /\ paper_date_map # <<>>
    /\ ~(params.test_flag /\ count >= TestLimit)

AllWritesOk == \A i \in Events("write_store") : log[i].ok

\* C3: from an absent store or one with pairwise distinct links, after any
\* runs of main and any failures, no two records of the in-memory
\* collection and no two rows of the persisted store share a link.
C3_NoSharedLink ==
    /\ NoDuplicateLinks(papers_info)
    /\ NoDuplicateLinks(store.rows)

\* C3 witness: a second run has ended after loading a non-empty store and
\* appending to it, one of its page fetches having failed.
C3_Witness ==
    /\ runs >= 2
    /\ pc = "Done"
    /\ Loaded # <<>>
    /\ Len(store.rows) > Len(Loaded)
    /\ \E i \in Events("fetch") : ~log[i].ok

\* C4 (as claimed): for every link in the persisted store at run start, the
\* run fetches no page, calls no download and appends no record for it.
C4_StoredLinkUntouched ==
    \A i \in 1..Len(log) :
        log[i].op \in {"fetch", "download", "download_existing"}
            => log[i].link \notin StoreLinks(start_store)

\* C4 (amended): for every link the run loaded from the persisted store at
\* run start (the store was read without error), the run fetches no page,
\* calls no download and appends no record for it.
C4_LoadedLinkUntouched ==
    /\ \A i \in 1..Len(log) :
        log[i].op \in {"fetch", "download", "download_existing"}
            => log[i].link \notin StoreLinks([rows |-> Loaded])
    /\ AppendedLinks \cap StoreLinks([rows |-> Loaded]) = {}

\* C4 witness: a run has ended that loaded a listed link from the store
\* and fetched the page of another listed link.
C4_Witness ==
    /\ pc = "Done"
    /\ Listed \cap StoreLinks([rows |-> Loaded]) # {}
    /\ \E i \in Events("fetch") : log[i].ok

\* C5: in a second run against the same listing and store, the store has no
\* two rows with the same link, and download_pdf is never called for a PDF
\* file that is on disk.
C5_ResumeIdempotent ==
    runs >= 2 =>
        /\ NoDuplicateLinks(store.rows)
        /\ Events("download_existing") = {}

\* C5 witness: a second run has ended, with downloads on, after skipping a
\* link loaded from the store and writing a paper whose PDF was on disk
\* without downloading it.
C5_Witness ==
    /\ runs >= 2
    /\ pc = "Done"
    /\ params.download_flag
    /\ Listed \cap StoreLinks([rows |-> Loaded]) # {}
    /\ \E i \in Events("write_store") :
        \A j \in Events("download") : log[j].link # log[i].link

\* C6 (as claimed): once the run has appended a record, at every iteration
\* boundary, absent write failures, the persisted store equals the
\* in-memory collection.
C6_StoreEqualsCollection ==
    (/\ pc \in {"Iterating", "Done"}
     /\ AppendedLinks # {}
     /\ AllWritesOk)
    => store = WriteExcel(papers_info)

C9_NoPdfNoRecord ==
    \A i \in Events("find_pdf") :
        ~log[i].ok =>
            /\ log[i].link \notin AppendedLinks
            /\ log[i].link \in StoreLinks(store) => log[i].link \in StoreLinks(start_store)

\* C9 (store part alone): no run writes to the persisted store a record of
\* a paper whose PDF link it did not find.
C9_NoPdfNotStored ==
    \A i \in Events("find_pdf") :
        ~log[i].ok =>
            (log[i].link \in StoreLinks(store) => log[i].link \in StoreLinks(start_store))

\* C10: when the listing cannot be fetched or the parser returns an empty
\* mapping, the run ends having fetched no paper page, called no download,
\* and neither read nor written the store.
C10_AbortTouchesNothing ==
    (/\ runs >= 1
     /\ \/ ~log[1].ok
        \/ ExtractPaperLinksWithDates(site, Year) = <<>>)
    => /\ pc \in {"ListingFetched", "Done", "Raised"}
       /\ log[1].op = "fetch_listing"
       /\ \A i \in 2..Len(log) :
            log[i].op \notin {"fetch", "find_pdf", "download", "download_existing",
                              "read_store", "write_store"}
       /\ store = start_store
       /\ papers_info = <<>>

\* C10 witness: with a store on disk, a run whose listing was fetched but
\* holds no dated paper link has ended.
C10_Witness ==
    /\ runs >= 1
    /\ pc = "Done"
    /\ log[1].ok
    /\ site.table
    /\ ExtractPaperLinksWithDates(site, Year) = <<>>
    /\ store.exists

\* ---- order of processing
SiteParses(j) ==
    IsDayRow(site.rows[j]) /\ ParseDayText(site.rows[j].text, Year) # None

\* Row i of the listing document is a paper row holding link k, met after a
\* day row that parsed
SiteDated(i, k) ==
    /\ IsPaperRow(site.rows[i])
    /\ FindLink(site.rows[i].anchors, Year) = k
    /\ \E j \in 1..(i - 1) : SiteParses(j)

\* The place in the listing-table walk where link k first enters the
\* mapping, or 0
FirstDatedRow(k) ==
    IF \E i \in 1..Len(site.rows) : SiteDated(i, k)
    THEN CHOOSE i \in 1..Len(site.rows) :
            SiteDated(i, k) /\ \A n \in 1..(i - 1) : ~SiteDated(n, k)
    ELSE 0

\* The place of every listed link in the walk
WalkOrder == [k \in Listed |-> FirstDatedRow(k)]

InWalkOrder(ord, recs, from) ==
    \A i \in from..(Len(recs) - 1) :
        /\ recs[i].link \in DOMAIN ord /\ recs[i + 1].link \in DOMAIN ord
        /\ ord[recs[i].link] # 0
        /\ ord[recs[i].link] < ord[recs[i + 1].link]

WrittenThisRun == \E i \in Events("write_store") : log[i].ok

FetchLog == SelectSeq(log, LAMBDA e : e.op = "fetch")

\* C11: in one run, paper pages are fetched in the order their links enter
\* the mapping during the listing-table walk; the records appended by the
\* run are in that order, after the records loaded at run start, in the
\* collection and in the store the run writes.
C11_Ordering ==
    LET ord == WalkOrder IN
    /\ InWalkOrder(ord, FetchLog, 1)
    /\ Len(papers_info) >= Len(Loaded)
    /\ SubSeq(papers_info, 1, Len(Loaded)) = ReadExcel([rows |-> Loaded])
    /\ InWalkOrder(ord, papers_info, Len(Loaded) + 1)
    /\ WrittenThisRun =>
        /\ SubSeq(store.rows, 1, Len(Loaded)) = Loaded
        /\ InWalkOrder(ord, store.rows, Len(Loaded) + 1)

\* C11 witness: a run that loaded records has ended after fetching two
\* pages and writing two new records behind the loaded ones.
C11_Witness ==
    /\ pc = "Done"
    /\ Loaded # <<>>
    /\ Cardinality(Events("fetch")) >= 2
    /\ WrittenThisRun
    /\ Len(store.rows) >= Len(Loaded) + 2

\* ------------------------------------------------------ the test limiter
\* C12 (as claimed): with test_flag on, a run appends at most 3 records to
\* the collection, whatever the listing length and whatever PDF links are
\* missing or downloads fail.
C12_AtMostThreeNew ==
    (runs >= 1 /\ params.test_flag)
        => Len(papers_info) - Len(Loaded) <= TestLimit

\* ----------------------------------------------- the run-driver boundary
\* C13 (as claimed): whatever collaborator call of main fails (listing or
\* paper fetch, output-directory creation, debug HTML write, store read,
\* store write, download), main does not end with an exception.
C13_NoExceptionEscapes == pc # "Raised"

\* ------------------------------------------------- the skip-downloads flag
DownloadOps == {"download", "download_existing"}

\* The events an iteration step adds to the log, downloads left out
StepEvents ==
    SelectSeq(SubSeq(log', Len(log) + 1, Len(log')),
              LAMBDA e : e.op \notin DownloadOps)

HasEvent(evs, op, ok) == \E i \in 1..Len(evs) : evs[i].op = op /\ evs[i].ok = ok

\* What an iteration does to the collection, the processed set, the count,
\* the store and the position of main, read off the current state and the
\* outcomes of the fetch, the PDF-link search, the debug write and the store
\* write alone: download_flag, the files on disk and the download outcomes
\* do not enter.
IterationEffect(evs) ==
    LET fetched == HasEvent(evs, "fetch", TRUE)
        found == HasEvent(evs, "find_pdf", TRUE)
        raised == HasEvent(evs, "debug_write", FALSE)
        written == HasEvent(evs, "write_store", TRUE)
        recs == IF fetched
                THEN Append(papers_info,
                            MakeRecord(GetArticleTitle(PageOf(Cur.link.num, TRUE)),
                                       Cur.date,
                                       GetAbstract(PageOf(Cur.link.num, TRUE)),
                                       Cur.link))
                ELSE papers_info
        cnt == IF found THEN count + 1 ELSE count
        stop == found /\ params.test_flag /\ cnt >= TestLimit
    IN  /\ papers_info' = recs
        /\ processed_links' = IF fetched THEN processed_links \cup {Cur.link}
                              ELSE processed_links
        /\ count' = cnt
        /\ store' = IF written THEN WriteExcel(recs) ELSE store
        /\ found => HasEvent(evs, "write_store", TRUE)
                    \/ HasEvent(evs, "write_store", FALSE)
        /\ pc' = IF raised THEN "Raised" ELSE IF stop THEN "Done" ELSE "Iterating"
        /\ pos' = IF raised \/ stop THEN pos ELSE pos + 1

NoDownloadEvents == \A i \in 1..Len(log) : log[i].op \notin DownloadOps

\* C14: with download_flag false no download is made during the run, and
\* every iteration appends and persists what the fetch, PDF-link and store
\* write outcomes alone determine, so the records are those of a run with
\* download_flag true over the same listing, store and outcomes.
C14_SkipDownloads ==
    /\ [](runs >= 1 /\ ~params.download_flag => NoDownloadEvents)
    /\ [][(pc = "Iterating" /\ log' # log) => IterationEffect(StepEvents)]_vars

\* C14 witness: a run without downloads has recorded and persisted two papers
C14_Witness ==
    /\ pc = "Done" /\ ~params.download_flag /\ NoDownloadEvents
    /\ Cardinality({i \in Events("write_store") : log[i].ok}) >= 2
    /\ Len(store.rows) >= Len(Loaded) + 2

\* ------------------------------------------------- the format of the dates
\* C15 (as claimed): every date of the mapping is 8 digits, the 4 of the
\* year, 2 of a month in 01..12 and 2 of the day, whatever digit run the
\* parser read as the day number.
C15_EightDigitDates ==
    \A n \in 1..Len(paper_date_map) :
        LET d == paper_date_map[n].date IN
        /\ Len(d) = 8
        /\ \A i \in 1..Len(d) : d[i] \in 0..9
        /\ SubSeq(d, 1, 4) = DigitsOf(Year)
        /\ 10 * d[5] + d[6] \in 1..12

\* ---------------------------------------------- title and abstract of a page
HasColon(s) == \E i \in 1..Len(s) : s[i] = ":"

FirstColon(s) == CHOOSE i \in 1..Len(s) : s[i] = ":" /\ \A j \in 1..(i - 1) : s[j] # ":"

\* C16 (as claimed): the title is "UnknownTitle" without a title element,
\* the whole trimmed string without a colon, and otherwise the whole
\* trimmed remainder after the first colon, later colons included.
C16_FirstColonOnly ==
    page_pc \in {"titled", "extracted"} /\ soup_temp \in Pages =>
        LET t == soup_temp.title IN
        article_title =
            IF t = <<>> THEN UnknownTitle
            ELSE IF HasColon(t) THEN Strip(SubSeq(t, FirstColon(t) + 1, Len(t)))
            ELSE Strip(t)

\* C19: the abstract is the text of the container's paragraph when the
\* container has one, else the container's own text when there is a
\* container, else the content of the meta description when there is no
\* container, else empty; with a container the meta content is never used.
C19_AbstractFallback ==
    page_pc = "extracted" /\ soup_temp \in Pages =>
        /\ abstract =
            CASE soup_temp.div = "p" -> Strip(soup_temp.p_text)
              [] soup_temp.div = "text" -> Strip(soup_temp.div_text)
              [] soup_temp.div = "none" /\ soup_temp.meta = "content" -> soup_temp.content
              [] OTHER -> <<>>
        /\ soup_temp.div # "none" /\ soup_temp.meta = "content"
            => abstract # soup_temp.content

\* C19 witness: a page with a container without paragraph and with a meta
\* description has the container's text as its abstract
C19_Witness ==
    /\ page_pc = "extracted"
    /\ soup_temp.div = "text" /\ soup_temp.meta = "content"
    /\ abstract = <<"Abstract", " ", " ", "summary">>

\* ------------------------------------------------------ an unreadable store
\* The read of the store failed in the current run
ReadFailed == \E i \in Events("read_store") : ~log[i].ok

\* The pages fetched in the current run, in order
FetchedOk == SelectSeq(log, LAMBDA e : e.op = "fetch" /\ e.ok)

\* C17: after a failed read of an existing store the run goes on into its
\* loop with an empty collection and an empty processed set: the collection
\* and the processed set hold the pages fetched in this run and nothing
\* else, no listed link is skipped as processed, and the run ends only by
\* the end of the loop, the test limiter or an exception of a later step.
C17_UnreadableAsAbsent ==
    (runs >= 1 /\ ReadFailed) =>
        /\ start_store.exists
        /\ pc \in {"Iterating", "Done", "Raised"}
        /\ pc = "Done" => \/ pos >= Len(paper_date_map)
                          \/ params.test_flag /\ count >= TestLimit
        /\ Len(papers_info) = Len(FetchedOk)
        /\ \A i \in 1..Len(papers_info) : papers_info[i].link = FetchedOk[i].link
        /\ processed_links = {FetchedOk[i].link : i \in 1..Len(FetchedOk)}
        /\ \A n \in 1..pos :
            \E i \in Events("fetch") : log[i].link = paper_date_map[n].link
        /\ WrittenThisRun => StoreLinks(store) \subseteq processed_links

\* C17 witness: a run whose read of a store with records failed has fetched
\* and recorded a paper of that store again and has ended
C17_Witness ==
    /\ ReadFailed /\ pc = "Done" /\ WrittenThisRun
    /\ start_store.rows # <<>>
    /\ \E i \in 1..Len(papers_info) :
        papers_info[i].link \in StoreLinks(start_store)

\* ------------------------------------------- day rows that fail to parse
\* The date of the last day row before row i that parsed, or None
DateBefore(i) ==
    IF NearestParsedDay(i) = 0 THEN None
    ELSE ParseDayText(rows[NearestParsedDay(i)].text, Year)

\* The step over a day row whose text fails to parse
UnparsedDayStep ==
    /\ idx' = idx + 1
    /\ IsDayRow(rows[idx + 1])
    /\ ~Parses(idx + 1)

\* The step over a paper row that holds link k
PaperStepOf(k) ==
    /\ idx' = idx + 1
    /\ k # NoLink
    /\ LinkAt(idx + 1) = k

\* C18: the step over a day row that fails to parse changes neither the
\* current date nor the mapping nor the skipped list, and the walk goes on
\* to the next row; a paper row met later is mapped to the date of the last
\* day row that parsed, or skipped when there is none.
C18_UnparsedDayKeepsDate ==
    /\ [][UnparsedDayStep =>
            /\ current_date' = current_date
            /\ paper_date_map' = paper_date_map
            /\ skipped_links' = skipped_links
            /\ rows' = rows]_vars
    /\ [](idx < Len(rows) /\ IsDayRow(rows[idx + 1]) => ENABLED DayRowStep)
    /\ [](current_date = DateBefore(idx + 1))
    /\ [][\A k \in {L1, L2} : PaperStepOf(k) =>
            IF DateBefore(idx + 1) = None
            THEN /\ skipped_links' = Append(skipped_links, k)
                 /\ paper_date_map' = paper_date_map
            ELSE /\ skipped_links' = skipped_links
                 /\ \E n \in 1..Len(paper_date_map') :
                     /\ paper_date_map'[n].link = k
                     /\ paper_date_map'[n].date = DateBefore(idx + 1)]_vars

\* C18 witness: the walk has just passed a day row that failed to parse,
\* and the current date is still the one of an earlier day row
C18_Witness ==
    /\ idx >= 2
    /\ IsDayRow(rows[idx]) /\ ~Parses(idx)
    /\ NearestParsedDay(idx) # 0
    /\ current_date # None
    /\ current_date = ParseDayText(rows[NearestParsedDay(idx)].text, Year)

\* ------------------------------------------------ the store only grows
IsPrefix(a, b) == Len(a) <= Len(b) /\ SubSeq(b, 1, Len(a)) = a

\* C20: in a run that read the store and found a Link column, the store
\* holds at every moment, so after every write, the rows loaded at run
\* start, unchanged and in their order, as a prefix; a step of the run only
\* appends to the collection, and a write stores the whole collection.
C20_LoadedRowsStayPrefix ==
    /\ []((runs >= 1 /\ StoreRead /\ start_store.link_col) =>
            /\ IsPrefix(start_store.rows, store.rows)
            /\ IsPrefix(ReadExcel(start_store), papers_info))
    /\ [][runs' = runs =>
            /\ IsPrefix(papers_info, papers_info')
            /\ store' # store =>
                /\ Len(store'.rows) = Len(papers_info')
                /\ \A i \in 1..Len(papers_info') :
                    store'.rows[i].link = papers_info'[i].link]_vars

\* C20 witness: a run that loaded a record with an empty abstract cell has
\* written the store with a new record after it
C20_Witness ==
    /\ StoreRead /\ start_store.link_col /\ WrittenThisRun
    /\ start_store.rows # <<>>
    /\ start_store.rows[1].abstract = EmptyCell
    /\ Len(store.rows) > Len(start_store.rows)

====
